---- MODULE Spec2Model ----
(***************************************************************************)
(* The AudioPlayer component of home/components/AudioPlayer.tsx as a state *)
(* machine: the two pieces of component state (error, playback), the       *)
(* props, the output of the last render, and the Audio.Sound objects the   *)
(* effect creates.  One action per callback the host event loop runs:      *)
(* mount, a props change, unmount, a playback status update, a rejected    *)
(* load, a press of one of the six controls.  The media runtime behind     *)
(* Audio.Sound is the environment: it settles loads, applies the commands  *)
(* it is sent, advances the playback clock and reports its status.         *)
(*                                                                         *)
(* React runs each callback to completion and re-renders before the next   *)
(* one, so every action ends with the render of the new state.             *)
(***************************************************************************)
EXTENDS Integers, Sequences, FiniteSets, TLC

\* ---------------------------------------------------------------- bounds
\* Audio.Sound objects one instance creates (its mount plus its source
\* changes).
MaxSounds == 2
\* Length of a track, in clock steps; positions range over 0..MaxMillis.
MaxMillis == 2
\* Commands sent to the current sound and not yet reported back by a
\* status update.
MaxUnreported == 1
\* Longest time the time display is computed for, in whole seconds.
MaxSeconds == 3700

Uris == {"a", "b"}
Errors == {"e1", "e2"}

\* ------------------------------------------------------------- constants
\* Playback rates, in units of one half, so that 0.5, 1 and 2 are integers.
Half == 1
One == 2
Two == 4
Rates == {Half, One, Two}

\* A JavaScript number is kept as a count of thousandths, so that a time in
\* seconds, positionMillis / 1000, is the integer positionMillis.
Scale == 1000
Sixty == 60

Controls == {"PlayPause", "Repeat", "Slower", "Faster", "CorrectPitch", "Mute"}

VARIABLES
  mounted,     \* whether an instance of the component is attached
  props,       \* [isAudioEnabled, uri] of the last render of the instance
  error,       \* useState(initialErrorState)
  playback,    \* useState(initialPlaybackState)
  view,        \* what the last render returned
  sounds,      \* the Audio.Sound objects the last instance created, in order
  unreported,  \* commands sent since the last status update
  ev,          \* the last callback that ran in the attached instance since
               \* its effect last ran, with its input
  trail,       \* history: how far the run has just gone through Watched
  recorded     \* history: an error was recorded since the effect last ran

vars == <<mounted, props, error, playback, view, sounds, unreported, ev,
          trail, recorded>>

\* ------------------------------------------------------------ data model
initialErrorState == "null"
initialPlaybackState == [isLoaded |-> FALSE]

\* The status of a sound that has just finished loading.
InitialStatus ==
  [isLoaded |-> TRUE, positionMillis |-> 0, durationMillis |-> MaxMillis,
   isPlaying |-> FALSE, isLooping |-> FALSE, isMuted |-> FALSE,
   rate |-> One, shouldCorrectPitch |-> FALSE]

LoadedStatuses ==
  [isLoaded : {TRUE}, positionMillis : 0..MaxMillis, durationMillis : {MaxMillis},
   isPlaying : BOOLEAN, isLooping : BOOLEAN, isMuted : BOOLEAN,
   rate : Rates, shouldCorrectPitch : BOOLEAN]

FailedStatus(e) == [isLoaded |-> FALSE, error |-> e]

\* The status an unload ends with: not loaded, and no error in it.
UnloadedStatus == [isLoaded |-> FALSE, error |-> "null"]

\* new Audio.Sound(): nothing loaded, no status callback, never unloaded.
\* heard records whether a status callback was set when unload was asked
\* for, siblings how many sounds were held and not released when this one
\* was created.
NewSound ==
  [phase |-> "unloaded", callback |-> FALSE, unloads |-> 0, heard |-> FALSE,
   siblings |-> 0, status |-> InitialStatus]

NoView == [mounted |-> FALSE]
\* The value of props while no instance is attached.
NoProps == [isAudioEnabled |-> FALSE, uri |-> "a"]
NoEvent == [kind |-> "none"]

\* ------------------------------------------------- the component's code
\* The component state of one instance: the two useState cells.
setError(c, e) == [c EXCEPT !.error = e]
setPlayback(c, pb) == [c EXCEPT !.playback = pb]

\* Variant: a failed update records the error and keeps the snapshot.
handlePlaybackStatusUpdate_KeepsSnapshot(c, sound, status) ==
  IF ~status.isLoaded
  THEN setError(c, status.error)
  ELSE setError(
         setPlayback(c,
           [isLoaded |-> TRUE, sound |-> sound,
            positionMillis |-> status.positionMillis,
            durationMillis |-> status.durationMillis,
            isPlaying |-> status.isPlaying, isLooping |-> status.isLooping,
            isMuted |-> status.isMuted, rate |-> status.rate,
            shouldCorrectPitch |-> status.shouldCorrectPitch]),
         "null")

\* Variant: a successful update is reconciled with a loaded snapshot, whose
\* rate it keeps.
handlePlaybackStatusUpdate_Reconciles(c, sound, status) ==
  IF ~status.isLoaded
  THEN setError(setPlayback(c, [isLoaded |-> FALSE]), status.error)
  ELSE setError(
         setPlayback(c,
           [isLoaded |-> TRUE, sound |-> sound,
            positionMillis |-> status.positionMillis,
            durationMillis |-> status.durationMillis,
            isPlaying |-> status.isPlaying, isLooping |-> status.isLooping,
            isMuted |-> status.isMuted,
            rate |-> IF c.playback.isLoaded THEN c.playback.rate ELSE status.rate,
            shouldCorrectPitch |-> status.shouldCorrectPitch]),
         "null")

\* handlePlaybackStatusUpdate(sound, status): the new component state.
handlePlaybackStatusUpdate(c, sound, status) ==
  IF ~status.isLoaded
  THEN setError(setPlayback(c, [isLoaded |-> FALSE]), status.error)
  ELSE setError(
         setPlayback(c,
           [isLoaded |-> TRUE,
            sound |-> sound,
            positionMillis |-> status.positionMillis,
            durationMillis |-> status.durationMillis,
            isPlaying |-> status.isPlaying,
            isLooping |-> status.isLooping,
            isMuted |-> status.isMuted,
            rate |-> status.rate,
            shouldCorrectPitch |-> status.shouldCorrectPitch]),
         "null")

\* Variant: a rejected load also resets the view-state.
onLoadRejected_Unloads(c, e) == setPlayback(setError(c, e), [isLoaded |-> FALSE])

\* loadAsync(...).catch(setError): the handler of a rejected load.
onLoadRejected(c, e) == setError(c, e)

\* Variant: playable whenever audio is enabled.
isPlayable_AudioOnly(p, pb) == p.isAudioEnabled

isPlayable(p, pb) == p.isAudioEnabled /\ pb.isLoaded

\* `${n}` of a non-negative whole number n: its decimal digits.
DigitChars == <<"0", "1", "2", "3", "4", "5", "6", "7", "8", "9">>

RECURSIVE TemplateLiteral(_)
TemplateLiteral(n) ==
  IF n < 10 THEN <<DigitChars[n + 1]>>
  ELSE Append(TemplateLiteral(n \div 10), DigitChars[(n % 10) + 1])

\* String.prototype.padStart with a pad string of one character.
RECURSIVE padStart(_, _, _)
padStart(str, targetLength, padChar) ==
  IF Len(str) >= targetLength THEN str
  ELSE padStart(<<padChar>> \o str, targetLength, padChar)

\* Math.floor of a number of thousandths, as a whole number.
floor(x) == x \div Scale

\* Variant: the minutes field wraps at the hour.
_formatTime_WrapsAtHour(duration) ==
  LET paddedSeconds == padStart(TemplateLiteral(floor(duration % (Sixty * Scale))), 2, "0")
      paddedMinutes == padStart(TemplateLiteral(floor(duration \div Sixty) % Sixty), 2, "0")
  IN paddedMinutes \o <<":">> \o paddedSeconds

\* _formatTime(duration), duration a non-negative number of thousandths of a
\* second.  duration / 60 is floored at once, so it is kept as the
\* thousandths of the quotient rounded down, which has the same floor.
_formatTime(duration) ==
  LET paddedSeconds == padStart(TemplateLiteral(floor(duration % (Sixty * Scale))), 2, "0")
      paddedMinutes == padStart(TemplateLiteral(floor(duration \div Sixty)), 2, "0")
  IN paddedMinutes \o <<":">> \o paddedSeconds

\* What the component function returns as the text next to the play button.
timeText(pb) ==
  IF pb.isLoaded
  THEN _formatTime(pb.positionMillis) \o <<" ", "/", " ">> \o _formatTime(pb.durationMillis)
  ELSE <<"0", "0", ":", "0", "0", " ", "/", " ", "0", "0", ":", "0", "0">>

\* The active prop of each control.
active(ctl, pb) ==
  pb.isLoaded /\
    CASE ctl = "PlayPause" -> pb.isPlaying
      [] ctl = "Repeat" -> pb.isLooping
      [] ctl = "Slower" -> pb.rate < One
      [] ctl = "Faster" -> pb.rate > One
      [] ctl = "CorrectPitch" -> pb.shouldCorrectPitch
      [] ctl = "Mute" -> pb.isMuted

\* What the component function returns for props p and state c: the props
\* of the six controls and the error overlay.
Render(p, c) ==
  [mounted |-> TRUE,
   disabled |-> [ctl \in Controls |-> ~isPlayable(p, c.playback)],
   active |-> [ctl \in Controls |-> active(ctl, c.playback)],
   errorOverlay |-> IF c.error # "null" THEN c.error ELSE "null"]

\* The commands the six onPress handlers send, in order, when they run in a
\* render whose view-state is pb.
\* Variant: a paused track resumes where it is.
onPressPlayPause_Resumes(pb) ==
  IF pb.isLoaded
  THEN IF pb.isPlaying
       THEN <<[sound |-> pb.sound, op |-> "pauseAsync"]>>
       ELSE IF pb.positionMillis < pb.durationMillis
            THEN <<[sound |-> pb.sound, op |-> "playAsync"]>>
            ELSE <<[sound |-> pb.sound, op |-> "playFromPositionAsync", positionMillis |-> 0]>>
  ELSE <<>>

onPressPlayPause(pb) ==
  IF pb.isLoaded
  THEN IF pb.isPlaying
       THEN <<[sound |-> pb.sound, op |-> "pauseAsync"]>>
       ELSE IF pb.positionMillis < pb.durationMillis
            THEN <<[sound |-> pb.sound, op |-> "playFromPositionAsync", positionMillis |-> 0]>>
            ELSE <<[sound |-> pb.sound, op |-> "playAsync"]>>
  ELSE <<>>

onPressRepeat(pb) ==
  IF pb.isLoaded
  THEN <<[sound |-> pb.sound, op |-> "setIsLoopingAsync", isLooping |-> ~pb.isLooping]>>
  ELSE <<>>

\* Variant: Slower asks for a rate without pitch correction.
onPressSlower_DropsPitch(pb) ==
  IF pb.isLoaded
  THEN LET newRate == IF pb.rate < One THEN One ELSE Half
       IN <<[sound |-> pb.sound, op |-> "setRateAsync", rate |-> newRate,
             shouldCorrectPitch |-> FALSE,
             pitchCorrectionQuality |-> "High"]>>
  ELSE <<>>

onPressSlower(pb) ==
  IF pb.isLoaded
  THEN LET newRate == IF pb.rate < One THEN One ELSE Half
       IN <<[sound |-> pb.sound, op |-> "setRateAsync", rate |-> newRate,
             shouldCorrectPitch |-> pb.shouldCorrectPitch,
             pitchCorrectionQuality |-> "High"]>>
  ELSE <<>>

\* Variant: Faster steps the rate up by one tier.
onPressFaster_StepsUp(pb) ==
  IF pb.isLoaded
  THEN LET newRate == IF pb.rate < One THEN One ELSE Two
       IN <<[sound |-> pb.sound, op |-> "setRateAsync", rate |-> newRate,
             shouldCorrectPitch |-> pb.shouldCorrectPitch,
             pitchCorrectionQuality |-> "High"]>>
  ELSE <<>>

onPressFaster(pb) ==
  IF pb.isLoaded
  THEN LET newRate == IF pb.rate > One THEN One ELSE Two
       IN <<[sound |-> pb.sound, op |-> "setRateAsync", rate |-> newRate,
             shouldCorrectPitch |-> pb.shouldCorrectPitch,
             pitchCorrectionQuality |-> "High"]>>
  ELSE <<>>

\* Variant: the pitch toggle goes back to the normal rate.
onPressCorrectPitch_ResetsRate(pb) ==
  IF pb.isLoaded
  THEN <<[sound |-> pb.sound, op |-> "setRateAsync", rate |-> One,
          shouldCorrectPitch |-> ~pb.shouldCorrectPitch,
          pitchCorrectionQuality |-> "High"]>>
  ELSE <<>>

onPressCorrectPitch(pb) ==
  IF pb.isLoaded
  THEN <<[sound |-> pb.sound, op |-> "setRateAsync", rate |-> pb.rate,
          shouldCorrectPitch |-> ~pb.shouldCorrectPitch,
          pitchCorrectionQuality |-> "High"]>>
  ELSE <<>>

onPressMute(pb) ==
  IF pb.isLoaded
  THEN <<[sound |-> pb.sound, op |-> "setIsMutedAsync", isMuted |-> ~pb.isMuted]>>
  ELSE <<>>

onPress(ctl, pb) ==
  CASE ctl = "PlayPause" -> onPressPlayPause(pb)
    [] ctl = "Repeat" -> onPressRepeat(pb)
    [] ctl = "Slower" -> onPressSlower(pb)
    [] ctl = "Faster" -> onPressFaster(pb)
    [] ctl = "CorrectPitch" -> onPressCorrectPitch(pb)
    [] ctl = "Mute" -> onPressMute(pb)

\* --------------------------------------------------- the Audio.Sound API
\* What the calls the component makes do to the sound objects.  A sound is
\* "unloaded" while it holds no media (before its load, after a failed
\* load, a playback failure or an unload), "loading" from loadAsync until
\* the load settles, "loaded" after a load that succeeded, and "unloading"
\* from unloadAsync on a loaded sound until the unload is done.  The end of
\* an unload is reported to the status callback and shows in nothing else,
\* so the unload of a sound that has no status callback is taken to be done
\* at once.
setOnPlaybackStatusUpdate(ss, s, subscribed) ==
  [ss EXCEPT ![s].callback = subscribed]

loadAsync(ss, s) == [ss EXCEPT ![s].phase = "loading"]

unloadAsync(ss, s) ==
  [ss EXCEPT ![s].unloads = @ + 1,
             ![s].heard = ss[s].callback,
             ![s].phase = IF @ # "loaded" THEN @
                          ELSE IF ss[s].callback THEN "unloading" ELSE "unloaded",
             ![s].status = InitialStatus]

\* The status of a loaded sound after the runtime has carried out cmd.
ApplyCommand(st, cmd) ==
  CASE cmd.op = "pauseAsync" -> [st EXCEPT !.isPlaying = FALSE]
    [] cmd.op = "playAsync" -> [st EXCEPT !.isPlaying = TRUE]
    [] cmd.op = "playFromPositionAsync" ->
         [st EXCEPT !.isPlaying = TRUE, !.positionMillis = cmd.positionMillis]
    [] cmd.op = "setIsLoopingAsync" -> [st EXCEPT !.isLooping = cmd.isLooping]
    [] cmd.op = "setIsMutedAsync" -> [st EXCEPT !.isMuted = cmd.isMuted]
    [] cmd.op = "setRateAsync" ->
         [st EXCEPT !.rate = cmd.rate, !.shouldCorrectPitch = cmd.shouldCorrectPitch]

\* A command sent to a sound that is not loaded has no effect on it.
Send(ss, cmd) ==
  IF ss[cmd.sound].phase = "loaded"
  THEN [ss EXCEPT ![cmd.sound].status = ApplyCommand(@, cmd)]
  ELSE ss

RECURSIVE SendAll(_, _)
SendAll(ss, cmds) ==
  IF cmds = <<>> THEN ss ELSE SendAll(Send(ss, Head(cmds)), Tail(cmds))

\* One step of the playback clock of a playing sound: the position moves
\* on; at the end of the track a looping sound starts over and any other
\* stops.
Advance(st) ==
  LET next == IF st.positionMillis < st.durationMillis
              THEN st.positionMillis + 1 ELSE st.durationMillis
  IN IF next < st.durationMillis THEN [st EXCEPT !.positionMillis = next]
     ELSE IF st.isLooping THEN [st EXCEPT !.positionMillis = 0]
     ELSE [st EXCEPT !.positionMillis = next, !.isPlaying = FALSE]

\* ------------------------------------------------------------ the effect
\* useEffect's body: a new sound, subscribed, its load started.  The new
\* sound is the last of ss.
Effect(ss) ==
  LET s == Len(ss) + 1
      held == {o \in 1..Len(ss) : ss[o].unloads = 0}
      created == Append(ss, [NewSound EXCEPT !.siblings = Cardinality(held)])
  IN loadAsync(setOnPlaybackStatusUpdate(created, s, TRUE), s)

\* Variant: only a sound whose load has finished is unloaded.
Cleanup_UnloadsLoadedOnly(x, s) ==
  LET c1 == setPlayback(x.c, [isLoaded |-> FALSE])
      ss1 == setOnPlaybackStatusUpdate(x.sounds, s, FALSE)
      ss2 == IF ss1[s].phase = "loaded" THEN unloadAsync(ss1, s) ELSE ss1
  IN [c |-> c1, sounds |-> ss2]

\* Variant: the status callback stays set.
Cleanup_KeepsSubscription(x, s) ==
  LET c1 == setPlayback(x.c, [isLoaded |-> FALSE])
      ss2 == unloadAsync(x.sounds, s)
  IN [c |-> c1, sounds |-> ss2]

\* Variant: the view-state is left as it is.
Cleanup_KeepsPlayback(x, s) ==
  LET ss1 == setOnPlaybackStatusUpdate(x.sounds, s, FALSE)
      ss2 == unloadAsync(ss1, s)
  IN [c |-> x.c, sounds |-> ss2]

\* The function the effect returns, run for sound s: the view-state is
\* reset, the subscription cancelled, the unload requested.
Cleanup(x, s) ==
  LET c1 == setPlayback(x.c, [isLoaded |-> FALSE])
      ss1 == setOnPlaybackStatusUpdate(x.sounds, s, FALSE)
      ss2 == unloadAsync(ss1, s)
  IN [c |-> c1, sounds |-> ss2]

\* The sound the effect of the mounted instance holds.
current == Len(sounds)
comp == [error |-> error, playback |-> playback]

\* ------------------------------------------------------------- history
\* The scenario the trail follows: Slower is pressed in a loaded view-state
\* of rate 1 that is in step with the runtime, the runtime reports, Faster
\* is pressed, the runtime reports.  Any other callback that touches the
\* state or sends a command ends it.
Watched == <<"Slower", "status", "Faster", "status">>

Track(t, x, start) ==
  IF t # <<>> /\ Len(t) < Len(Watched) /\ Watched[Len(t) + 1] = x THEN Append(t, x)
  ELSE IF start /\ x = Watched[1] THEN <<x>>
  ELSE <<>>

\* --------------------------------------------------------------- actions
Init ==
  /\ mounted = FALSE
  /\ props = NoProps
  /\ error = initialErrorState
  /\ playback = initialPlaybackState
  /\ view = NoView
  /\ sounds = <<>>
  /\ unreported = 0
  /\ ev = NoEvent
  /\ trail = <<>>
  /\ recorded = FALSE

\* A new instance is attached with props p: fresh state, the first render,
\* then the effect.  A uri matters only through being equal to the uri of
\* the render before or not, so the first render of every instance is given
\* the same one.  The sounds of an instance detached earlier are dropped
\* from the record here: nothing they do reaches the new instance.
Mount(p) ==
  /\ ~mounted
  /\ p.uri = NoProps.uri
  /\ mounted' = TRUE
  /\ props' = p
  /\ error' = initialErrorState
  /\ playback' = initialPlaybackState
  /\ sounds' = Effect(<<>>)
  /\ view' = Render(p, [error |-> initialErrorState, playback |-> initialPlaybackState])
  /\ unreported' = 0
  /\ ev' = NoEvent
  /\ trail' = <<>>
  /\ recorded' = FALSE

\* Variant: the effect has no dependency list and runs after every render.
SetProps_EveryRender(p) ==
  /\ mounted
  /\ Len(sounds) < MaxSounds
  /\ LET x == Cleanup([c |-> comp, sounds |-> sounds], current)
     IN /\ error' = x.c.error
        /\ playback' = x.c.playback
        /\ sounds' = Effect(x.sounds)
        /\ view' = Render(p, x.c)
  /\ props' = p
  /\ unreported' = 0
  /\ ev' = NoEvent
  /\ trail' = <<>>
  /\ recorded' = FALSE
  /\ UNCHANGED mounted

\* Variant: the effect runs for the new uri before the cleanup of the effect
\* of the old one.
SetProps_EffectFirst(p) ==
  /\ mounted
  /\ p.uri # props.uri => Len(sounds) < MaxSounds
  /\ LET x == IF p.uri # props.uri
              THEN Cleanup([c |-> comp, sounds |-> Effect(sounds)], current)
              ELSE [c |-> comp, sounds |-> sounds]
     IN /\ error' = x.c.error
        /\ playback' = x.c.playback
        /\ sounds' = x.sounds
        /\ view' = Render(p, x.c)
  /\ props' = p
  /\ unreported' = IF p.uri # props.uri THEN 0 ELSE unreported
  /\ ev' = IF p.uri # props.uri THEN NoEvent ELSE ev
  /\ trail' = IF p.uri # props.uri THEN <<>> ELSE trail
  /\ recorded' = IF p.uri # props.uri THEN FALSE ELSE recorded
  /\ UNCHANGED mounted

\* The parent renders the component with props p.  The effect depends on
\* props.source.uri alone: when it changed, the cleanup of the previous
\* effect runs, then the effect again.
SetProps(p) ==
  /\ mounted
  /\ p.uri # props.uri => Len(sounds) < MaxSounds
  /\ LET x == IF p.uri # props.uri
              THEN Cleanup([c |-> comp, sounds |-> sounds], current)
              ELSE [c |-> comp, sounds |-> sounds]
     IN /\ error' = x.c.error
        /\ playback' = x.c.playback
        /\ sounds' = IF p.uri # props.uri THEN Effect(x.sounds) ELSE x.sounds
        /\ view' = Render(p, x.c)
  /\ props' = p
  /\ unreported' = IF p.uri # props.uri THEN 0 ELSE unreported
  /\ ev' = IF p.uri # props.uri THEN NoEvent ELSE ev
  /\ trail' = IF p.uri # props.uri THEN <<>> ELSE trail
  /\ recorded' = IF p.uri # props.uri THEN FALSE ELSE recorded
  /\ UNCHANGED mounted

\* The instance is detached: the cleanup runs and the instance's state is
\* gone with it.
Unmount ==
  /\ mounted
  /\ LET x == Cleanup([c |-> comp, sounds |-> sounds], current)
     IN /\ sounds' = x.sounds
        /\ playback' = x.c.playback
  /\ mounted' = FALSE
  /\ error' = initialErrorState
  /\ view' = NoView
  /\ unreported' = 0
  /\ ev' = NoEvent
  /\ trail' = <<>>
  /\ recorded' = FALSE
  /\ props' = NoProps

\* The load of sound s rejects with e, and the catch handler runs: setError
\* takes effect if the instance is still attached.
LoadReject(s, e) ==
  /\ sounds[s].phase = "loading"
  /\ sounds' = [sounds EXCEPT ![s].phase = "unloaded"]
  /\ LET c == IF mounted
              THEN onLoadRejected(comp, e) ELSE comp
     IN /\ error' = c.error
        /\ playback' = c.playback
        /\ view' = IF mounted THEN Render(props, c) ELSE NoView
  /\ ev' = IF mounted
           THEN [kind |-> "reject", sound |-> s, error |-> e] ELSE ev
  /\ trail' = IF mounted THEN <<>> ELSE trail
  /\ recorded' = IF mounted THEN TRUE ELSE recorded
  /\ UNCHANGED <<mounted, props, unreported>>

\* The runtime calls the status callback of sound s with status.
Deliver(s, status) ==
  LET c == handlePlaybackStatusUpdate(comp, s, status)
  IN /\ error' = c.error
     /\ playback' = c.playback
     /\ view' = Render(props, c)
     /\ unreported' = 0
     /\ ev' = [kind |-> "status", sound |-> s, status |-> status,
                wasLoaded |-> playback.isLoaded]
     /\ trail' = IF status.isLoaded THEN Track(trail, "status", FALSE) ELSE <<>>
     /\ recorded' = IF status.isLoaded THEN recorded ELSE TRUE
     /\ UNCHANGED <<mounted, props>>

\* The runtime finishes what it is doing for sound s.  A load leaves the
\* sound loaded, or unloaded again if its unload was asked for meanwhile; an
\* unload leaves it unloaded and reports the status it ended with to the
\* status callback, if one is set.
Resolve(s) ==
  /\ sounds[s].phase \in {"loading", "unloading"}
  /\ sounds' = [sounds EXCEPT ![s].phase =
                  IF @ = "loading" /\ sounds[s].unloads = 0 THEN "loaded" ELSE "unloaded"]
  /\ IF sounds[s].phase = "unloading" /\ sounds[s].callback /\ mounted
     THEN Deliver(s, UnloadedStatus)
     ELSE UNCHANGED <<mounted, props, error, playback, view, unreported, ev,
                      trail, recorded>>

\* A status update of a loaded, subscribed sound: its status after the
\* commands it was sent, with the playback clock moved on (progress) or not.
PlaybackStatusUpdate(s, progress) ==
  /\ sounds[s].phase = "loaded"
  /\ sounds[s].callback
  /\ progress => sounds[s].status.isPlaying
  /\ LET status == IF progress THEN Advance(sounds[s].status) ELSE sounds[s].status
     IN /\ sounds' = [sounds EXCEPT ![s].status = status]
        /\ Deliver(s, status)

\* Playback of a loaded, subscribed sound fails with e: the runtime drops
\* the sound and reports the failure.
PlaybackError(s, e) ==
  /\ sounds[s].phase = "loaded"
  /\ sounds[s].callback
  /\ sounds' = [sounds EXCEPT ![s].phase = "unloaded", ![s].status = InitialStatus]
  /\ Deliver(s, FailedStatus(e))

\* Variant: a press shows its effect at once, the snapshot being updated
\* with what the command asks for.
Press_Optimistic(ctl) ==
  /\ mounted
  /\ LET cmds == onPress(ctl, playback)
         pb == IF cmds = <<>> THEN playback
               ELSE [ApplyCommand(playback, cmds[1]) EXCEPT !.isLoaded = TRUE]
     IN /\ unreported + Len(cmds) <= MaxUnreported
        /\ sounds' = SendAll(sounds, cmds)
        /\ unreported' = unreported + Len(cmds)
        /\ ev' = [kind |-> "press", control |-> ctl, issued |-> cmds]
        /\ trail' = IF cmds = <<>> THEN trail
                     ELSE Track(trail, ctl, playback.rate = One /\ unreported = 0)
        /\ playback' = pb
        /\ view' = Render(props, [error |-> error, playback |-> pb])
  /\ UNCHANGED <<mounted, props, error, recorded>>

\* The onPress handler of control ctl runs.  The enabled flag of the native
\* button follows the render asynchronously, so the handler can run in any
\* state of the attached instance.
Press(ctl) ==
  /\ mounted
  /\ LET cmds == onPress(ctl, playback)
     IN /\ unreported + Len(cmds) <= MaxUnreported
        /\ sounds' = SendAll(sounds, cmds)
        /\ unreported' = unreported + Len(cmds)
        /\ ev' = [kind |-> "press", control |-> ctl, issued |-> cmds]
        /\ trail' = IF cmds = <<>> THEN trail
                     ELSE Track(trail, ctl, playback.rate = One /\ unreported = 0)
  /\ UNCHANGED <<mounted, props, error, playback, view, recorded>>

\* Variant: the handler works from the present status of the sound, not
\* from the snapshot of the render it was created in.
PressAgain_ReadsSound(ctl) ==
  /\ mounted
  /\ ev.kind \in {"press", "pressAgain"} /\ ev.control = ctl
  /\ LET st == sounds[playback.sound].status
         pb == IF playback.isLoaded
               THEN [isLoaded |-> TRUE, sound |-> playback.sound,
                     positionMillis |-> st.positionMillis,
                     durationMillis |-> st.durationMillis,
                     isPlaying |-> st.isPlaying, isLooping |-> st.isLooping,
                     isMuted |-> st.isMuted, rate |-> st.rate,
                     shouldCorrectPitch |-> st.shouldCorrectPitch]
               ELSE playback
         cmds == onPress(ctl, pb)
     IN /\ sounds' = SendAll(sounds, cmds)
        /\ ev' = [kind |-> "pressAgain", control |-> ctl, issued |-> cmds,
                   before |-> ev.issued]
  /\ trail' = <<>>
  /\ UNCHANGED <<mounted, props, error, playback, view, unreported, recorded>>

\* The onPress handler of control ctl runs once more, no other callback
\* having run since it last did: the render is the same, and so are the
\* handler and the snapshot it works from.  ev keeps what the run before
\* sent.
PressAgain(ctl) ==
  /\ mounted
  /\ ev.kind \in {"press", "pressAgain"} /\ ev.control = ctl
  /\ LET cmds == onPress(ctl, playback)
     IN /\ sounds' = SendAll(sounds, cmds)
        /\ ev' = [kind |-> "pressAgain", control |-> ctl, issued |-> cmds,
                   before |-> ev.issued]
  /\ trail' = <<>>
  /\ UNCHANGED <<mounted, props, error, playback, view, unreported, recorded>>

Next ==
  \/ \E p \in [isAudioEnabled : BOOLEAN, uri : Uris] : Mount(p)
  \/ \E p \in [isAudioEnabled : BOOLEAN, uri : Uris] : SetProps(p)
  \/ Unmount
  \/ \E s \in 1..Len(sounds) : Resolve(s)
  \/ \E s \in 1..Len(sounds), e \in Errors : LoadReject(s, e)
  \/ \E s \in 1..Len(sounds), progress \in BOOLEAN : PlaybackStatusUpdate(s, progress)
  \/ \E s \in 1..Len(sounds), e \in Errors : PlaybackError(s, e)
  \/ \E ctl \in Controls : Press(ctl)

Spec == Init /\ [][Next]_vars

\* ------------------------------------------------- presses in a row
\* The component with the one sound of its mount, where a control can be
\* pressed any number of times before the next status update.
PressNext ==
  \/ \E p \in [isAudioEnabled : BOOLEAN, uri : Uris] : Mount(p)
  \/ \E s \in 1..Len(sounds) : Resolve(s)
  \/ \E s \in 1..Len(sounds), progress \in BOOLEAN : PlaybackStatusUpdate(s, progress)
  \/ \E ctl \in Controls : Press(ctl)
  \/ \E ctl \in Controls : PressAgain(ctl)

PressSpec == Init /\ [][PressNext]_vars

\* ------------------------------------------------------ the time display
\* The component function run once on a Loaded view-state whose position is
\* any number of milliseconds up to MaxSeconds seconds: whole seconds, one
\* millisecond past and one millisecond short of a whole second.  Here the
\* view holds the time text too.
FormatMillis ==
  {sec * Scale + ms : sec \in 0..MaxSeconds, ms \in {0, 1, Scale - 1}}

FormatInit ==
  /\ mounted = TRUE
  /\ props = [isAudioEnabled |-> TRUE, uri |-> NoProps.uri]
  /\ error = initialErrorState
  /\ \E pos \in FormatMillis :
       playback = [isLoaded |-> TRUE, sound |-> 1,
                   positionMillis |-> pos,
                   durationMillis |-> (MaxSeconds + 1) * Scale,
                   isPlaying |-> FALSE, isLooping |-> FALSE, isMuted |-> FALSE,
                   rate |-> One, shouldCorrectPitch |-> FALSE]
  /\ view = NoView
  /\ sounds = <<[NewSound EXCEPT !.phase = "loaded", !.callback = TRUE]>>
  /\ unreported = 0
  /\ ev = NoEvent
  /\ trail = <<>>
  /\ recorded = FALSE

FormatRender ==
  /\ view = NoView
  /\ view' = Render(props, comp) @@ [time |-> timeText(playback)]
  /\ UNCHANGED <<mounted, props, error, playback, sounds, unreported, ev,
                 trail, recorded>>

FormatNext == FormatRender

FormatSpec == FormatInit /\ [][FormatNext]_vars

\* ---------------------------------------------------------------- claims
Unloaded == [isLoaded |-> FALSE]
LastStatus == ev.kind = "status"
LastPress(ctl) == ev.kind = "press" /\ ev.control = ctl

\* C1: after a status update that reports failure the view-state is exactly
\* Unloaded (nothing of a loaded snapshot is kept) and the error state, and
\* with it the overlay, is the error the update carried.
C1_FailedUpdate ==
  (LastStatus /\ ~ev.status.isLoaded) =>
    /\ playback = Unloaded
    /\ error = ev.status.error
    /\ view.errorOverlay = ev.status.error

C1_Witness ==
  /\ LastStatus /\ ~ev.status.isLoaded /\ ev.wasLoaded
  /\ ev.status.error = "e2"
  /\ playback = Unloaded

\* C2: after a successful status update the view-state is Loaded with the
\* seven fields of the update and the sound that delivered it, whatever the
\* view-state was before, and the error state is None.
C2_LoadedUpdate ==
  (LastStatus /\ ev.status.isLoaded) =>
    /\ playback =
         [isLoaded |-> TRUE, sound |-> ev.sound,
          positionMillis |-> ev.status.positionMillis,
          durationMillis |-> ev.status.durationMillis,
          isPlaying |-> ev.status.isPlaying, isLooping |-> ev.status.isLooping,
          isMuted |-> ev.status.isMuted, rate |-> ev.status.rate,
          shouldCorrectPitch |-> ev.status.shouldCorrectPitch]
    /\ error = "null"

C2_Witness ==
  /\ LastStatus /\ ev.status.isLoaded /\ ev.wasLoaded
  /\ ev.status.rate = Half /\ ev.status.isMuted /\ ev.status.positionMillis = 1
  /\ playback.isLoaded /\ playback.rate = Half /\ playback.sound = ev.sound

\* C3: each of the six controls is enabled exactly when audio is enabled and
\* the view-state is Loaded.
C3_Enabled ==
  mounted =>
    \A ctl \in Controls :
      view.disabled[ctl] = ~(props.isAudioEnabled /\ playback.isLoaded)

C3_Witness ==
  /\ mounted /\ props.isAudioEnabled /\ ~playback.isLoaded
  /\ \A ctl \in Controls : view.disabled[ctl]

\* C4: a press of Play/Pause in a Loaded view-state sends one command to the
\* snapshot's sound: pause when the snapshot is playing, else
\* playFromPosition(0) when its position is before its duration.
C4_PlayPause ==
  (LastPress("PlayPause") /\ playback.isLoaded) =>
    /\ Len(ev.issued) = 1
    /\ ev.issued[1].sound = playback.sound
    /\ playback.isPlaying => ev.issued[1].op = "pauseAsync"
    /\ (~playback.isPlaying /\ playback.positionMillis < playback.durationMillis) =>
         /\ ev.issued[1].op = "playFromPositionAsync"
         /\ ev.issued[1].positionMillis = 0

C4_Witness ==
  /\ LastPress("PlayPause") /\ playback.isLoaded /\ ~playback.isPlaying
  /\ 0 < playback.positionMillis /\ playback.positionMillis < playback.durationMillis
  /\ sounds[playback.sound].status.positionMillis = 0
  /\ sounds[playback.sound].status.isPlaying

\* C5: a press of Play/Pause in a Loaded view-state that is not playing and
\* is at or past the end sends a command that starts playback from position
\* 0.
C5_PlayFromStart ==
  (/\ LastPress("PlayPause") /\ playback.isLoaded /\ ~playback.isPlaying
   /\ playback.positionMillis >= playback.durationMillis) =>
    /\ Len(ev.issued) = 1
    /\ sounds[ev.issued[1].sound].status.isPlaying
    /\ sounds[ev.issued[1].sound].status.positionMillis = 0

\* C6 as stated: from rate 1, Slower then Faster, each reported back by the
\* runtime, ends at rate 1.
C6_BackToOne == trail = Watched => (playback.isLoaded /\ playback.rate = One)

\* C6 as amended: from rate 1, Slower then Faster, each reported back by the
\* runtime, ends at rate 2.
C6_EndsAtTwo == trail = Watched => (playback.isLoaded /\ playback.rate = Two)

C6_Witness == trail = Watched /\ LastStatus /\ playback.isLoaded /\ playback.rate = Two

\* C7: unload has been requested exactly once for every sound the instance
\* no longer holds, whatever became of its load, and not yet for the sound
\* the attached instance holds; after unmount that is every sound created.
C7_UnloadOnce ==
  \A s \in 1..Len(sounds) :
    sounds[s].unloads = IF mounted /\ s = current THEN 0 ELSE 1

C7_Witness ==
  /\ ~mounted /\ Len(sounds) = 2
  /\ sounds[1].unloads = 1 /\ sounds[1].phase = "unloaded"
  /\ sounds[2].unloads = 1 /\ sounds[2].phase = "loading"

\* C8: a press sends commands only in a Loaded view-state and only to a
\* sound for which no unload has been requested; any other press sends
\* nothing.
C8_NoStaleCommand ==
  ev.kind = "press" =>
    \A i \in 1..Len(ev.issued) :
      playback.isLoaded /\ sounds[ev.issued[i].sound].unloads = 0

C8_Witness ==
  /\ mounted /\ ev.kind = "press" /\ ev.issued = <<>>
  /\ ~playback.isLoaded
  /\ sounds[1].unloads = 1 /\ sounds[2].phase = "loaded"

\* C9: the step in which a rejected load is handled makes the rejection's
\* error the error state and leaves the view-state as it was.
C9_LoadRejected ==
  [][(ev' # ev /\ ev'.kind = "reject") =>
       (error' = ev'.error /\ playback' = playback)]_vars

C9_Witness ==
  /\ ev.kind = "reject" /\ error = ev.error /\ ev.sound = 1
  /\ playback.isLoaded /\ playback.sound = 2

\* C10: once an error has been recorded, by a rejected load or a failed
\* status update, the error state is Some for as long as the instance stays
\* attached and the source uri stays the same.
C10_ErrorTerminal == (mounted /\ recorded) => error # "null"

\* C11: the time display of a Loaded view-state shows, for the position and
\* for the duration, minutes = d div 60 and seconds = d mod 60 of the whole
\* seconds d = floor(ms / 1000), each as two digits at least, joined by ':':
\* the seconds field is in 00..59 and the minutes field is not capped.
TwoDigits(n) == IF n < 10 THEN <<"0">> \o TemplateLiteral(n) ELSE TemplateLiteral(n)
Clock(ms) == TwoDigits((ms \div 1000) \div 60) \o <<":">> \o TwoDigits((ms \div 1000) % 60)
FirstHalf(txt) ==
  SubSeq(txt, 1, (CHOOSE i \in 1..Len(txt) : txt[i] = " " /\ \A j \in 1..(i - 1) : txt[j] # " ") - 1)
TensOfSeconds(txt) == FirstHalf(txt)[Len(FirstHalf(txt)) - 1]

C11_FormatTime ==
  (view # NoView /\ playback.isLoaded) =>
    /\ view.time = Clock(playback.positionMillis) \o <<" ", "/", " ">>
                     \o Clock(playback.durationMillis)
    /\ Len(FirstHalf(view.time)) >= 5
    /\ FirstHalf(view.time)[Len(FirstHalf(view.time)) - 2] = ":"
    /\ TensOfSeconds(view.time) \in {"0", "1", "2", "3", "4", "5"}
    /\ playback.positionMillis = 0 => FirstHalf(view.time) = <<"0", "0", ":", "0", "0">>
    /\ playback.positionMillis = 65000 => FirstHalf(view.time) = <<"0", "1", ":", "0", "5">>
    /\ playback.positionMillis = 3600000 => FirstHalf(view.time) = <<"6", "0", ":", "0", "0">>

C11_Witness ==
  /\ view # NoView /\ playback.isLoaded
  /\ playback.positionMillis = 3600999
  /\ FirstHalf(view.time) = <<"6", "0", ":", "0", "0">>

\* C12: a press of Slower in a Loaded view-state asks for rate 1 when the
\* snapshot's rate is below 1 and for 0.5 otherwise; a press of Faster asks
\* for rate 1 when the snapshot's rate is above 1 and for 2 otherwise.  The
\* rate asked for is one of 0.5, 1, 2, and the request carries the snapshot's
\* shouldCorrectPitch and the quality High.
RateRequest(rate) ==
  <<[sound |-> playback.sound, op |-> "setRateAsync", rate |-> rate,
     shouldCorrectPitch |-> playback.shouldCorrectPitch,
     pitchCorrectionQuality |-> "High"]>>

C12_RateRequests ==
  /\ (LastPress("Slower") /\ playback.isLoaded) =>
       /\ ev.issued = RateRequest(IF playback.rate < One THEN One ELSE Half)
       /\ ev.issued[1].rate \in {Half, One, Two}
  /\ (LastPress("Faster") /\ playback.isLoaded) =>
       /\ ev.issued = RateRequest(IF playback.rate > One THEN One ELSE Two)
       /\ ev.issued[1].rate \in {Half, One, Two}
  /\ ev.kind = "press" =>
       \A i \in 1..Len(ev.issued) :
         ev.issued[i].op = "setRateAsync" =>
           /\ ev.issued[i].rate \in {Half, One, Two}
           /\ ev.issued[i].pitchCorrectionQuality = "High"

C12_Witness ==
  /\ LastPress("Slower") /\ playback.isLoaded
  /\ playback.rate = Half /\ playback.shouldCorrectPitch
  /\ ev.issued[1].rate = One /\ ev.issued[1].shouldCorrectPitch

\* C13: a press of a toggle in a Loaded view-state sends exactly one command,
\* with the negation of the snapshot's value and nothing else changed: Repeat
\* sends setIsLooping(~isLooping), Mute sends setIsMuted(~isMuted), Correct
\* Pitch sends setRate(rate, ~shouldCorrectPitch, High) with the snapshot's
\* rate.
C13_Toggles ==
  playback.isLoaded =>
    /\ LastPress("Repeat") =>
         ev.issued = <<[sound |-> playback.sound, op |-> "setIsLoopingAsync",
                        isLooping |-> ~playback.isLooping]>>
    /\ LastPress("Mute") =>
         ev.issued = <<[sound |-> playback.sound, op |-> "setIsMutedAsync",
                        isMuted |-> ~playback.isMuted]>>
    /\ LastPress("CorrectPitch") =>
         ev.issued = <<[sound |-> playback.sound, op |-> "setRateAsync",
                        rate |-> playback.rate,
                        shouldCorrectPitch |-> ~playback.shouldCorrectPitch,
                        pitchCorrectionQuality |-> "High"]>>

C13_Witness ==
  /\ LastPress("CorrectPitch") /\ playback.isLoaded
  /\ playback.rate = Two /\ playback.shouldCorrectPitch
  /\ ev.issued[1].rate = Two /\ ~ev.issued[1].shouldCorrectPitch
  /\ sounds[playback.sound].status.rate = Two
  /\ ~sounds[playback.sound].status.shouldCorrectPitch

\* C14: a step in which a control sends a command changes neither the
\* view-state nor the error state nor what is rendered, and the view-state
\* changes only in a step that delivers a status update or releases the
\* sound the effect holds.
Released(s) == s \in 1..Len(sounds) /\ sounds[s].unloads = 0 /\ sounds'[s].unloads = 1

C14_ControlsChangeNothing ==
  [][/\ ((ev'.kind = "press" /\ ev' # ev) \/ unreported' > unreported) =>
          UNCHANGED <<playback, error, view>>
     /\ playback' # playback => (ev'.kind = "status" \/ Released(current))]_vars

C14_Witness ==
  /\ LastPress("Mute") /\ playback.isLoaded /\ ~playback.isMuted
  /\ ~view.active["Mute"]
  /\ sounds[playback.sound].status.isMuted
  /\ error = "null"

\* C15: a sound for which unload has been asked has no status callback, and
\* had none when the unload was asked for; the view-state never is a
\* snapshot of such a sound; and no status update of such a sound, the one
\* its unload ends with included, has been handled by the component since
\* its effect last ran.
C15_ReleasedIsSilent ==
  /\ \A s \in 1..Len(sounds) :
       sounds[s].unloads > 0 => (~sounds[s].callback /\ ~sounds[s].heard)
  /\ playback.isLoaded => sounds[playback.sound].unloads = 0
  /\ ~mounted => playback = Unloaded
  /\ LastStatus => (ev.sound = current /\ sounds[ev.sound].unloads = 0)

C15_Witness ==
  /\ mounted /\ Len(sounds) = 2
  /\ sounds[1].unloads = 1 /\ sounds[1].phase = "unloaded" /\ ~sounds[1].callback
  /\ sounds[1].status = InitialStatus
  /\ sounds[2].phase = "loaded" /\ sounds[2].callback
  /\ LastStatus /\ ev.sound = 2 /\ playback.isLoaded /\ playback.isPlaying

\* C16: a step creates a sound or asks for the unload of one only if it
\* mounts or unmounts the component or renders it with another source uri;
\* a render with the same uri, whatever else of the props changed, and a
\* render after a status update leave the sounds as they are.  A render of
\* the mounted component with another uri creates one sound and releases the
\* one held before.
SoundsTouched ==
  \/ Len(sounds') # Len(sounds)
  \/ \E s \in 1..Len(sounds) : sounds'[s].unloads # sounds[s].unloads

C16_EffectOnUriOnly ==
  [][/\ SoundsTouched => (mounted' # mounted \/ props'.uri # props.uri)
     /\ (mounted /\ mounted' /\ props'.uri # props.uri) =>
          (Len(sounds') = Len(sounds) + 1 /\ Released(current))]_vars

C16_Witness ==
  /\ mounted /\ ~props.isAudioEnabled /\ view.active["PlayPause"]
  /\ \A ctl \in Controls : view.disabled[ctl]
  /\ LastStatus /\ ev.status.isLoaded /\ playback.isLoaded /\ playback.isPlaying
  /\ Len(sounds) = 1 /\ sounds[1].unloads = 0 /\ sounds[1].phase = "loaded"

\* C17: at most one sound is created and not released; while the component
\* is mounted it is the sound the effect holds, after unmount there is none;
\* and no sound was created while another was still held.
Held == {s \in 1..Len(sounds) : sounds[s].unloads = 0}

C17_OneSoundHeld ==
  /\ Cardinality(Held) <= 1
  /\ Held = IF mounted THEN {current} ELSE {}
  /\ \A s \in 1..Len(sounds) : sounds[s].siblings = 0

C17_Witness ==
  /\ mounted /\ Len(sounds) = 2 /\ Held = {2}
  /\ sounds[1].phase = "loading" /\ sounds[2].phase = "loaded"

\* C18: whenever the view-state is Loaded the error state is None.
C18_LoadedNoError == playback.isLoaded => error = "null"

\* C19: a step that makes an error the error state handles a rejected load
\* or a status update of the sound the effect holds, and a step that renders
\* the mounted component with another source uri leaves no error recorded.
C19_ErrorOfCurrent ==
  [][/\ (error' # error /\ error' # "null") =>
          (ev'.kind \in {"reject", "status"} /\ ev'.sound = current)
     /\ (mounted /\ mounted' /\ props'.uri # props.uri) => error' = "null"]_vars

\* C20: a press of a control that follows a press of the same control, with
\* no status update delivered in between, sends the same commands as the
\* press before: both are computed from the one snapshot, and the second
\* does not undo the first.
C20_SameSnapshotSameCommand ==
  ev.kind = "pressAgain" =>
    /\ ev.issued = ev.before
    /\ ev.issued = onPress(ev.control, playback)

C20_Witness ==
  /\ ev.kind = "pressAgain" /\ ev.control = "Repeat"
  /\ playback.isLoaded /\ ~playback.isLooping
  /\ ev.before = <<[sound |-> playback.sound, op |-> "setIsLoopingAsync", isLooping |-> TRUE]>>
  /\ ev.issued = ev.before
  /\ sounds[playback.sound].status.isLooping
====
